---- MODULE Spec2Model ----
(***************************************************************************)
(* Model of cube_buildcube.py: make_empty_image sizes and allocates an     *)
(* empty 4-dimensional FITS cube, fill_cube_with_images copies every       *)
(* channel image into it (or flags the channel) and write_statistics_file  *)
(* writes the per-channel statistics table.                                *)
(*                                                                         *)
(* Representation of floating point values.  A float is a record           *)
(* [nan, v]; the integer v stands for v * (1e6 / 14826), so that the       *)
(* threshold 1e6 of check_rms is the integer 14826 and the product         *)
(* 1.4826 * mad is (14826 * mad) \div 10000.  The pixel samples used are   *)
(* multiples of 5000 chosen so that every division below is exact.         *)
(*                                                                         *)
(* Representation of an image plane.  A plane is carried as three sample   *)
(* pixels (a sequence of floats); its shape (rows, columns) is carried     *)
(* separately and decides sizing and whether an assignment broadcasts.     *)
(***************************************************************************)
EXTENDS Integers, Sequences, FiniteSets, TLC

\* Largest number of channel images in the image directories that are
\* enumerated in full (see Catalogs).
MaxFiles == 2

----------------------------------------------------------------------------
(* Floats                                                                  *)

Num(n) == [nan |-> FALSE, v |-> n]

NaN == [nan |-> TRUE, v |-> 0]

\* The literal 1e6 of check_rms, in the fixed-point unit described above.
OneE6 == 14826

Abs(n) == IF n < 0 THEN -n ELSE n

RECURSIVE Insert(_, _)
Insert(n, s) ==
    IF s = <<>> THEN <<n>>
    ELSE IF n <= Head(s) THEN <<n>> \o s
    ELSE <<Head(s)>> \o Insert(n, Tail(s))

\* The non-NaN values of a plane, in ascending order.
RECURSIVE SortedValues(_)
SortedValues(a) ==
    IF a = <<>> THEN <<>>
    ELSE IF Head(a).nan THEN SortedValues(Tail(a))
    ELSE Insert(Head(a).v, SortedValues(Tail(a)))

\* np.nanmedian: NaN entries are ignored; NaN when nothing is left.
nanmedian(a) ==
    LET s == SortedValues(a)
        n == Len(s)
    IN  IF n = 0 THEN NaN
        ELSE IF n % 2 = 1 THEN Num(s[(n + 1) \div 2])
        ELSE Num((s[n \div 2] + s[n \div 2 + 1]) \div 2)

get_mad(a) ==
    LET med == nanmedian(a)
        dev == [i \in DOMAIN a |->
                  IF a[i].nan \/ med.nan THEN NaN ELSE Num(Abs(a[i].v - med.v))]
    IN  nanmedian(dev)

get_std_via_mad(npArray) ==
    LET mad == get_mad(npArray)
    IN  IF mad.nan THEN NaN ELSE Num((14826 * mad.v) \div 10000)

\* A value that is either an array (a plane) or the scalar np.nan.
Arr(a) == [scalar |-> FALSE, data |-> a]

ScalarNaN == [scalar |-> TRUE, data |-> <<>>]

\* A comparison that also holds at the threshold itself.
BelowThreshold_inclusive(std) == (~std.nan) /\ std.v <= OneE6

\* The float comparison std < 1e6 (False whenever std is NaN).
BelowThreshold(std) == (~std.nan) /\ std.v < OneE6

check_rms(npArray) ==
    LET std == get_std_via_mad(npArray)
    IN  IF BelowThreshold(std)
        THEN [npArray |-> ScalarNaN, std |-> NaN]
        ELSE [npArray |-> Arr(npArray), std |-> std]

RECURSIVE SumSeq(_)
SumSeq(a) ==
    IF a = <<>> THEN Num(0)
    ELSE LET r == SumSeq(Tail(a))
         IN  IF Head(a).nan \/ r.nan THEN NaN ELSE Num(Head(a).v + r.v)

\* np.sum of an array or of the scalar np.nan.
np_sum(x) == IF x.scalar THEN NaN ELSE SumSeq(x.data)

RECURSIVE MaxSeq(_)
MaxSeq(a) ==
    IF Len(a) = 1 THEN Head(a)
    ELSE LET r == MaxSeq(Tail(a))
         IN  IF Head(a).nan \/ r.nan THEN NaN
             ELSE IF Head(a).v >= r.v THEN Head(a) ELSE r

\* np.max: NaN as soon as one pixel is NaN.
np_max(a) == MaxSeq(a)

----------------------------------------------------------------------------
(* File names                                                              *)

\* ".chan" as character codes.
MARKER_CHANNEL == <<46, 99, 104, 97, 110>>

\* Number of characters read after the marker.
ChannelDigits == 3

IsDigit(c) == c >= 48 /\ c <= 57

\* "a.chan001", "a.chan002", "a.chan00x", "b.chan001", "b.chan003": the part
\* of each path in front of the common ending ".image.fits".
FileNames ==
    { <<97>> \o MARKER_CHANNEL \o <<48, 48, 49>>,
      <<97>> \o MARKER_CHANNEL \o <<48, 48, 50>>,
      <<97>> \o MARKER_CHANNEL \o <<48, 48, 120>>,
      <<98>> \o MARKER_CHANNEL \o <<48, 48, 49>>,
      <<98>> \o MARKER_CHANNEL \o <<48, 48, 51>> }

\* "a.chan002", "b.chan001", "b.chan003": a directory whose sorted names do
\* not list the channel numbers in ascending order.
OutOfOrderCatalog ==
    { <<97>> \o MARKER_CHANNEL \o <<48, 48, 50>>,
      <<98>> \o MARKER_CHANNEL \o <<48, 48, 49>>,
      <<98>> \o MARKER_CHANNEL \o <<48, 48, 51>> }

\* The directories considered: every set of at most MaxFiles names, and the
\* one above.
Catalogs ==
    { S \in SUBSET FileNames : Cardinality(S) <= MaxFiles }
      \cup {OutOfOrderCatalog}

\* Python's str comparison: first differing character decides, a proper
\* prefix sorts first.
RECURSIVE LexLess(_, _)
LexLess(s, t) ==
    IF s = <<>> THEN t # <<>>
    ELSE IF t = <<>> THEN FALSE
    ELSE IF Head(s) # Head(t) THEN Head(s) < Head(t)
    ELSE LexLess(Tail(s), Tail(t))

\* sorted(glob(...)): the names of a set in ascending string order.
RECURSIVE sorted(_)
sorted(S) ==
    IF S = {} THEN <<>>
    ELSE LET m == CHOOSE x \in S : \A y \in S \ {x} : LexLess(x, y)
         IN  <<m>> \o sorted(S \ {m})

\* Positions at which the marker occurs in a file name.
MarkerAt(filename, marker) ==
    { p \in 1..(Len(filename) - Len(marker) + 1) :
        SubSeq(filename, p, p + Len(marker) - 1) = marker }

RECURSIVE DigitsValue(_)
DigitsValue(d) ==
    IF d = <<>> THEN 0
    ELSE 10 * DigitsValue(SubSeq(d, 1, Len(d) - 1)) + (d[Len(d)] - 48)

\* The channel number of a file name: the fixed-width digits that follow the
\* marker.  [ok |-> FALSE] stands for the ParseError.
get_channelNumber_from_filename(filename, marker) ==
    LET at == MarkerAt(filename, marker)
    IN  IF at = {} THEN [ok |-> FALSE, n |-> 0]
        ELSE LET p == CHOOSE q \in at : \A r \in at : q <= r
                 first == p + Len(marker)
                 d == SubSeq(filename, first, first + ChannelDigits - 1)
             IN  IF first + ChannelDigits - 1 <= Len(filename)
                    /\ \A i \in DOMAIN d : IsDigit(d[i])
                 THEN [ok |-> TRUE, n |-> DigitsValue(d)]
                 ELSE [ok |-> FALSE, n |-> 0]

----------------------------------------------------------------------------
(* Channel images                                                          *)

Plane(a, b, c) == <<a, b, c>>

ZeroPlane == Plane(Num(0), Num(0), Num(0))

\* A scalar assigned to a slab fills every pixel of it.
Fill(x) == [i \in DOMAIN ZeroPlane |-> x]

\* Stokes V planes; the comment gives get_std_via_mad of each.
LoudV == Plane(Num(0), Num(20000), Num(40000))        \* 2e6
EdgeV == Plane(Num(0), Num(10000), Num(20000))        \* exactly 1e6
HalfV == Plane(Num(0), Num(5000), Num(10000))         \* 0.5e6
FlatV == Plane(Num(10000), Num(10000), Num(10000))    \* 0
GapV  == Plane(Num(0), Num(40000), NaN)               \* 2e6, one NaN pixel
VoidV == Plane(NaN, NaN, NaN)                         \* NaN

CleanI == Plane(Num(30000), Num(10000), Num(20000))
GapI   == Plane(Num(30000), NaN, Num(20000))
PlaneQ == Plane(Num(-10000), Num(0), Num(10000))
PlaneU == Plane(Num(5000), Num(-5000), Num(0))

\* Shapes (rows, columns) of the image planes, as numpy reports them.
Shapes == { <<30, 30>>, <<2, 2>>, <<2, 3>> }

DifferentShape(s) == IF s = <<30, 30>> THEN <<2, 2>> ELSE <<30, 30>>

\* len(header.tostring()): a whole number of 2880-byte blocks.
HeaderSizes == { 2880, 5760 }

\* What one channel file holds.  kind is "ok", or the statement of the try
\* block of fill_cube_with_images that raises for this file:
\*   "unopenable"  fits.open                     (line 312)
\*   "nofreq"      header["CRVAL3"]              (line 313)
\*   "noV"         data[3, 0, :, :]              (line 314)
Image(kind, shape, freq, I, V) ==
    [kind |-> kind, shape |-> shape, CRVAL3 |-> freq,
     I |-> I, Q |-> PlaneQ, U |-> PlaneU, V |-> V]

\* The images a channel file may hold when the cube was sized from a
\* reference image of shape refShape; isReference is true of the file the
\* cube was sized from, whose shape is refShape.
Images(refShape, isReference) ==
    { Image("ok", refShape, 1400000000, CleanI, LoudV),
      Image("ok", refShape, 1402500000, CleanI, EdgeV),
      Image("ok", refShape, 1405000049, CleanI, HalfV),
      Image("ok", refShape, 1407500051, CleanI, FlatV),
      Image("ok", refShape, 1410000000, CleanI, GapV),
      Image("ok", refShape, 1412500000, CleanI, VoidV),
      Image("ok", refShape, 1415000000, GapI, LoudV),
      Image("unopenable", refShape, 0, ZeroPlane, ZeroPlane),
      Image("nofreq", refShape, 0, CleanI, LoudV),
      Image("noV", refShape, 1417500000, ZeroPlane, ZeroPlane) }
    \cup
    (IF isReference THEN {}
     ELSE { Image("ok", DifferentShape(refShape), 1420000000, CleanI, LoudV),
            Image("ok", DifferentShape(refShape), 1422500000, CleanI, HalfV) })

\* numpy's rule for assigning an array of shape src to a slab of shape dst.
Broadcastable(src, dst) ==
    \A i \in 1..2 : src[i] = dst[i] \/ src[i] = 1

----------------------------------------------------------------------------
(* Headers                                                                 *)

\* str(conf.data.fieldnames).
fieldnames == "['DEEP_2']"

\* The header of the first file of the sorted list, whose planes have the
\* given shape (rows, columns): NAXIS1 counts the columns and NAXIS2 the
\* rows, the frequency axis has one entry and the Stokes axis four.
ReferenceHeader(shape) ==
    [OBJECT |-> "J0000-3000", BUNIT |-> "Jy/beam", BITPIX |-> -32,
     NAXIS |-> 4, NAXIS1 |-> shape[2], NAXIS2 |-> shape[1], NAXIS3 |-> 1,
     NAXIS4 |-> 4, CTYPE3 |-> "FREQ-OBS", CRVAL3 |-> 1400000000]

\* A header nothing was stored in yet.
NoHeader ==
    [OBJECT |-> "", BUNIT |-> "", BITPIX |-> 0,
     NAXIS |-> 0, NAXIS1 |-> 0, NAXIS2 |-> 0, NAXIS3 |-> 0,
     NAXIS4 |-> 0, CTYPE3 |-> "", CRVAL3 |-> 0]

\* Lines 80-87: the header of the first file with three cards set.
get_and_add_custom_header(header, zdim) ==
    [header EXCEPT !.OBJECT = fieldnames,
                   !.NAXIS3 = zdim,
                   !.CTYPE3 = "FREQ"]

\* Lines 120 and 130-131: header["NAXIS%d" % i] = dim for dims =
\* (xdim, ydim, zdim, wdim), numbered from 1.
SetAxes(header, d) ==
    [header EXCEPT !.NAXIS1 = d.xdim,
                   !.NAXIS2 = d.ydim,
                   !.NAXIS3 = d.zdim,
                   !.NAXIS4 = d.wdim]

----------------------------------------------------------------------------
(* State                                                                   *)

VARIABLES
    state,            \* Sizing, Allocating, Processing, Finalized, Aborted
    error,            \* the exception that ended the run, or "none"
    dirImages,        \* the channel files that glob finds
    dims,             \* [xdim, ydim, zdim, wdim] of make_empty_image
    referenceHeader,  \* hud[0].header of the first file, as read (line 80)
    header,           \* the header make_empty_image builds (lines 128-131)
    header_size,      \* len(header.tostring())
    cubeHeader,       \* the header region of the cube file
    cubeExists,       \* the cube file is on disk
    cubeSize,         \* its size in bytes
    dataCube,         \* slab contents, by <<stokes, channel position>>
    rmsDict,          \* the five lists of fill_cube_with_images
    done,             \* number of finished iterations of the channel loop
    opened,           \* the image each finished iteration found in its file
    checkedArray,     \* local of the latest iteration (line 315)
    stokesVflag,      \* local of the latest iteration
    slabWriteFailed,  \* an assignment to a slab of dataCube has raised
    statsFile         \* [exists, rows] of cube.statistics.tab

vars == <<state, error, dirImages, dims, referenceHeader, header, header_size,
          cubeHeader, cubeExists, cubeSize, dataCube, rmsDict, done, opened,
          checkedArray, stokesVflag, slabWriteFailed, statsFile>>

channelFitsfileList == sorted(dirImages)

EmptyDict == [chanNo |-> <<>>, freq |-> <<>>, rmsI |-> <<>>, rmsV |-> <<>>,
              maxI |-> <<>>]

NoDims == [xdim |-> 0, ydim |-> 0, zdim |-> 0, wdim |-> 0]

Init ==
    /\ state = "Sizing"
    /\ error = "none"
    /\ dirImages \in Catalogs
    /\ dims = NoDims
    /\ referenceHeader = NoHeader
    /\ header = NoHeader
    /\ header_size = 0
    /\ cubeHeader = NoHeader
    /\ cubeExists = FALSE
    /\ cubeSize = 0
    /\ dataCube = <<>>
    /\ rmsDict = EmptyDict
    /\ done = 0
    /\ opened = <<>>
    /\ checkedArray = ScalarNaN
    /\ stokesVflag = FALSE
    /\ slabWriteFailed = FALSE
    /\ statsFile = [exists |-> FALSE, legend |-> <<>>, rows |-> <<>>]

Abort(cause) ==
    /\ state' = "Aborted"
    /\ error' = cause

----------------------------------------------------------------------------
(* make_empty_image                                                        *)

\* Lines 99-133: the dimensions of the cube.  xdim and ydim are the last two
\* entries of the shape of the first file's data, zdim is the channel number
\* of the last file of the sorted list.
make_empty_image_dims ==
    /\ state = "Sizing"
    /\ \E readable \in BOOLEAN, shape \in Shapes, size \in HeaderSizes :
         LET list == channelFitsfileList
             highestChannelFitsfile == list[Len(list)]
             zdim == get_channelNumber_from_filename(highestChannelFitsfile,
                                                     MARKER_CHANNEL)
         IN  IF list = <<>>
             THEN /\ Abort("EmptyCatalog")
                  /\ UNCHANGED <<dims, referenceHeader, header, header_size>>
             ELSE IF ~readable
             THEN /\ Abort("ReferenceUnreadable")
                  /\ UNCHANGED <<dims, referenceHeader, header, header_size>>
             ELSE IF ~zdim.ok
             THEN /\ Abort("ParseError")
                  /\ UNCHANGED <<dims, referenceHeader, header, header_size>>
             ELSE /\ state' = "Allocating"
                  /\ error' = error
                  /\ dims' = [xdim |-> shape[1], ydim |-> shape[2],
                              zdim |-> zdim.n, wdim |-> 4]
                  /\ referenceHeader' = ReferenceHeader(shape)
                  /\ header' = SetAxes(
                         get_and_add_custom_header(referenceHeader', zdim.n),
                         dims')
                  /\ header_size' = size
    /\ UNCHANGED <<dirImages, cubeHeader, cubeExists, cubeSize, dataCube,
                   rmsDict, done, opened, checkedArray, stokesVflag,
                   slabWriteFailed, statsFile>>

\* Lines 142-146: the size of the data region.
data_size(d) ==
    LET block_size == 2880
        raw == d.xdim * d.ydim * d.zdim * d.wdim * 4
    IN  block_size * ((raw \div block_size) + 1)

\* The slabs of the cube file just allocated: every byte reads as zero.
EmptyCube(d) ==
    [p \in (0..(d.wdim - 1)) \X (0..(d.zdim - 1)) |-> ZeroPlane]

\* Lines 135-152: the header is written to the cube file, which is then
\* extended by one byte written at its last position; and lines 287-299,
\* which open the cube and start the five lists.  failure is the step that
\* raises: "tofile" (line 135), "extend" (lines 150-152) or "none".
make_empty_image_allocate ==
    /\ state = "Allocating"
    /\ \E failure \in {"none", "tofile", "extend"} :
         IF failure = "tofile"
         THEN /\ Abort("AllocationFailure")
              /\ UNCHANGED <<cubeHeader, cubeExists, cubeSize, dataCube>>
         ELSE IF failure = "extend"
         THEN /\ Abort("AllocationFailure")
              /\ cubeHeader' = header
              /\ cubeExists' = TRUE
              /\ cubeSize' = header_size
              /\ UNCHANGED dataCube
         ELSE /\ state' = "Processing"
              /\ error' = error
              /\ cubeHeader' = header
              /\ cubeExists' = TRUE
              /\ cubeSize' = header_size + data_size(dims)
              /\ dataCube' = EmptyCube(dims)
    /\ UNCHANGED rmsDict
    /\ UNCHANGED <<dirImages, dims, referenceHeader, header, header_size, done,
                   opened, checkedArray, stokesVflag, slabWriteFailed,
                   statsFile>>

----------------------------------------------------------------------------
(* fill_cube_with_images                                                   *)

\* Where an assignment to a slab of dataCube raises although index and shape
\* are right: the assignment of line 317, the first assignment after the try
\* block (line 331 or line 344), or nowhere.
WriteFaults == {"none", "line317", "afterTry"}

\* The shape of one slab dataCube[s, idx, :, :]: the cube header carries
\* NAXIS1 = xdim and NAXIS2 = ydim, and numpy lists the axes in reverse.
SlabShape(d) == <<d.ydim, d.xdim>>

\* Bytes of one slab dataCube[s, idx, :, :] of float32 pixels.
SlabBytes(d) == d.ydim * d.xdim * 4

\* First byte in the cube file of the slab dataCube[s, idx, :, :]: the data
\* follow the header, and the memory map of shape (wdim, zdim, ydim, xdim)
\* is laid out in row-major order.
SlabOffset(d, s, idx) == header_size + (s * d.zdim + idx) * SlabBytes(d)

\* The value of an array or a scalar once assigned to a slab.
AsSlab(x) == IF x.scalar THEN Fill(NaN) ELSE x.data

\* A copy whose Stokes I assignment is not limited to the channel idx.
CopySlabs_everyChannel(cube, idx, hud) ==
    [p \in DOMAIN cube |->
       IF p[1] = 0 THEN hud.I
       ELSE IF p = <<1, idx>> THEN hud.Q
       ELSE IF p = <<2, idx>> THEN hud.U
       ELSE cube[p]]

\* Lines 331-337: the I, Q and U planes of the file are copied.
CopySlabs(cube, idx, hud) ==
    [cube EXCEPT ![<<0, idx>>] = hud.I,
                 ![<<1, idx>>] = hud.Q,
                 ![<<2, idx>>] = hud.U]

\* A flagging that leaves the Stokes I slab as it was.
FlagSlabs_skipI(cube, idx) ==
    [cube EXCEPT ![<<1, idx>>] = Fill(NaN),
                 ![<<2, idx>>] = Fill(NaN),
                 ![<<3, idx>>] = Fill(NaN)]

\* Lines 344-347: all four slabs of the channel become NaN.
FlagSlabs(cube, idx) ==
    [cube EXCEPT ![<<0, idx>>] = Fill(NaN),
                 ![<<1, idx>>] = Fill(NaN),
                 ![<<2, idx>>] = Fill(NaN),
                 ![<<3, idx>>] = Fill(NaN)]

\* Lines 303-352, one turn of the loop for the file with index idx that holds
\* the image hud.
Channel(idx, hud, fault) ==
    LET readsV == hud.kind = "ok"
        readsFreq == hud.kind \in {"ok", "noV"}
        checked == check_rms(hud.V)
        inAxis == idx >= 0 /\ idx < dims.zdim
        fits == checked.npArray.scalar
                  \/ Broadcastable(hud.shape, SlabShape(dims))
        \* line 317 raises
        raises317 == readsV /\ (~inAxis \/ ~fits \/ fault = "line317")
        \* the except clause runs
        excepted == ~readsV \/ raises317
        flag == IF excepted THEN TRUE
                ELSE np_sum(checked.npArray).nan
                       \/ (~checked.std.nan /\ checked.std.v = 0)
        cubeV == IF excepted THEN dataCube
                 ELSE [dataCube EXCEPT ![<<3, idx>>] = AsSlab(checked.npArray)]
        rmsV316 == IF readsV THEN Append(rmsDict.rmsV, checked.std)
                   ELSE rmsDict.rmsV
        afterTry == [rmsDict EXCEPT
                       !.chanNo = Append(@, idx),
                       !.freq = IF readsFreq THEN Append(@, hud.CRVAL3) ELSE @,
                       !.rmsV = IF excepted THEN Append(rmsV316, NaN)
                                ELSE rmsV316]
        accepted == [afterTry EXCEPT
                       !.rmsI = Append(@, get_std_via_mad(hud.I)),
                       !.maxI = Append(@, np_max(hud.I))]
        flagged == [afterTry EXCEPT
                       !.rmsI = Append(@, NaN),
                       !.maxI = Append(@, NaN)]
        finished == /\ state' = state
                    /\ error' = error
                    /\ done' = done + 1
                    /\ opened' = Append(opened, hud)
    IN  /\ checkedArray' = IF readsV THEN checked.npArray ELSE checkedArray
        /\ stokesVflag' = flag
        /\ slabWriteFailed' =
             (slabWriteFailed \/ (readsV /\ (~inAxis \/ fault = "line317"))
                \/ (flag /\ ~inAxis) \/ fault = "afterTry")
        /\ IF ~flag
           THEN IF fault = "afterTry"
                THEN /\ Abort("SlabWriteFailure")
                     /\ rmsDict' = accepted
                     /\ dataCube' = cubeV
                     /\ UNCHANGED <<done, opened>>
                ELSE /\ finished
                     /\ rmsDict' = accepted
                     /\ dataCube' = CopySlabs(cubeV, idx, hud)
           ELSE IF ~inAxis
                THEN /\ Abort("IndexError")
                     /\ rmsDict' = afterTry
                     /\ dataCube' = cubeV
                     /\ UNCHANGED <<done, opened>>
                ELSE IF fault = "afterTry"
                THEN /\ Abort("SlabWriteFailure")
                     /\ rmsDict' = afterTry
                     /\ dataCube' = cubeV
                     /\ UNCHANGED <<done, opened>>
                ELSE /\ finished
                     /\ rmsDict' = flagged
                     /\ dataCube' = FlagSlabs(cubeV, idx)

\* Lines 301-352: the next file of the sorted list is processed.
fill_cube_with_images_channel ==
    /\ state = "Processing"
    /\ done < Len(channelFitsfileList)
    /\ LET channelFitsfile == channelFitsfileList[done + 1]
           number == get_channelNumber_from_filename(channelFitsfile,
                                                     MARKER_CHANNEL)
       IN  IF ~number.ok
           THEN /\ Abort("ParseError")
                /\ UNCHANGED <<dataCube, rmsDict, done, opened, checkedArray,
                               stokesVflag, slabWriteFailed>>
           ELSE \E hud \in Images(<<dims.xdim, dims.ydim>>, done = 0),
                   fault \in WriteFaults :
                  Channel(number.n - 1, hud, fault)
    /\ UNCHANGED <<dirImages, dims, referenceHeader, header, header_size,
                   cubeHeader, cubeExists, cubeSize, statsFile>>

----------------------------------------------------------------------------
(* write_statistics_file                                                   *)

\* round(n / d) to the nearest integer, ties to the even one.
RoundDiv(n, d) ==
    LET q == n \div d
        r == n % d
    IN  IF 2 * r < d THEN q
        ELSE IF 2 * r > d THEN q + 1
        ELSE IF q % 2 = 0 THEN q ELSE q + 1

\* round(freq * 1e-6, 4): the frequency in units of 1e-4 MHz.
MHz4(freq) == RoundDiv(freq, 100)

\* round(x * 1e6, 4): the same fixed-point number, now counted in micro
\* units; the rounding step is far below the spacing of the fixed-point
\* values, and NaN stays NaN.
Micro4(x) == [nan |-> x.nan, v |-> x.v, unit |-> "1e-6"]

legendList == <<"chanNo", "frequency [MHz]", "rmsStokesI [uJy/beam]",
                "rmsStokesV [uJy/beam]", "maxStokesI [uJy/beam]">>

\* Lines 242-248: one row for every entry of the rmsI list.
\* The rows put into ascending order of channel number before writing.
csvData_byChannel(statsDict) ==
    LET n == Len(statsDict.rmsI)
        before(j, ii) ==
            statsDict.chanNo[j] < statsDict.chanNo[ii]
              \/ (statsDict.chanNo[j] = statsDict.chanNo[ii] /\ j < ii)
        at(k) == CHOOSE ii \in 1..n :
                   Cardinality({ j \in 1..n : before(j, ii) }) = k - 1
    IN  [k \in 1..n |->
           [chanNo |-> statsDict.chanNo[at(k)],
            freq |-> MHz4(statsDict.freq[at(k)]),
            rmsI |-> Micro4(statsDict.rmsI[at(k)]),
            rmsV |-> Micro4(statsDict.rmsV[at(k)]),
            maxI |-> Micro4(statsDict.maxI[at(k)])]]

csvData(statsDict) ==
    [ii \in 1..Len(statsDict.rmsI) |->
       [chanNo |-> statsDict.chanNo[ii],
        freq |-> MHz4(statsDict.freq[ii]),
        rmsI |-> Micro4(statsDict.rmsI[ii]),
        rmsV |-> Micro4(statsDict.rmsV[ii]),
        maxI |-> Micro4(statsDict.maxI[ii])]]

\* Lines 355-356 and 227-249: after the loop the statistics file is opened
\* for writing, the rows are collected and then written.  Indexing a list
\* that is shorter than the rmsI list raises IndexError before any row is
\* written.
write_statistics_file ==
    /\ state = "Processing"
    /\ done = Len(channelFitsfileList)
    /\ IF \E col \in {"chanNo", "freq", "rmsV", "maxI"} :
            Len(rmsDict[col]) < Len(rmsDict.rmsI)
       THEN /\ Abort("StatisticsIndexError")
            /\ statsFile' = [exists |-> TRUE, legend |-> <<>>, rows |-> <<>>]
       ELSE /\ state' = "Finalized"
            /\ error' = error
            /\ statsFile' = [exists |-> TRUE, legend |-> legendList,
                             rows |-> csvData(rmsDict)]
    /\ UNCHANGED <<dirImages, dims, referenceHeader, header, header_size,
                   cubeHeader, cubeExists, cubeSize, dataCube, rmsDict, done,
                   opened, checkedArray, stokesVflag, slabWriteFailed>>

----------------------------------------------------------------------------

Next ==
    \/ make_empty_image_dims
    \/ make_empty_image_allocate
    \/ fill_cube_with_images_channel
    \/ write_statistics_file

Spec == Init /\ [][Next]_vars

----------------------------------------------------------------------------
(* Properties                                                              *)

\* The channel loop stands between two turns or has ended normally.
LoopIdle ==
    state \in {"Processing", "Finalized"} \/ error = "StatisticsIndexError"

\* The image found by the latest finished turn of the loop, the index of its
\* file and the Stokes V estimate of get_std_via_mad for it.
lastHud == opened[done]

lastIdx ==
    get_channelNumber_from_filename(channelFitsfileList[done],
                                    MARKER_CHANNEL).n - 1

lastStdV == get_std_via_mad(lastHud.V)

Last(s) == s[Len(s)]

AllSlabsNaN(cube, idx) == \A st \in 0..3 : cube[<<st, idx>>] = Fill(NaN)

\* C1: a channel whose file opens and whose Stokes V estimate is not below
\* 1e6 has, once processed, its four slabs equal to the I, Q, U and V planes
\* of the file and the computed Stokes I noise and peak in the lists.  (The
\* channels looked at are those whose planes have the shape of a slab and
\* during whose run no assignment to the cube raised.)
C1_AcceptCopiesAllFour ==
    (LoopIdle /\ done > 0 /\ lastHud.kind = "ok"
       /\ lastHud.shape = SlabShape(dims)
       /\ ~slabWriteFailed
       /\ ~lastStdV.nan /\ lastStdV.v >= OneE6)
    => /\ dataCube[<<0, lastIdx>>] = lastHud.I
       /\ dataCube[<<1, lastIdx>>] = lastHud.Q
       /\ dataCube[<<2, lastIdx>>] = lastHud.U
       /\ dataCube[<<3, lastIdx>>] = lastHud.V
       /\ Last(rmsDict.rmsI) = get_std_via_mad(lastHud.I)
       /\ Last(rmsDict.maxI) = np_max(lastHud.I)

\* C2: a channel whose Stokes V estimate is below 1e6 (decision Flag) has,
\* once processed, NaN in all four slabs at its position and NaN as its
\* Stokes I noise and peak.
C2_FlagBlanksAllFour ==
    (LoopIdle /\ done > 0 /\ lastHud.kind = "ok"
       /\ ~lastStdV.nan /\ lastStdV.v < OneE6)
    => /\ AllSlabsNaN(dataCube, lastIdx)
       /\ Last(rmsDict.rmsI) = NaN
       /\ Last(rmsDict.maxI) = NaN

\* C2 witness: a channel with estimate 0.5e6 has been processed and blanked.
C2_Witness ==
    /\ LoopIdle /\ done > 0 /\ lastHud.kind = "ok"
    /\ lastStdV = Num(7413)
    /\ AllSlabsNaN(dataCube, lastIdx)
    /\ Last(rmsDict.rmsI) = NaN

Unavailable(hud) ==
    hud.kind \in {"unopenable", "nofreq", "noV"}
       \/ hud.shape # <<dims.xdim, dims.ydim>>

\* C4: a turn of the loop for an unavailable file flags the channel, leaves
\* NaN in its four slabs and adds exactly one entry to each of the five
\* lists, NaN for Stokes I noise, Stokes V noise and Stokes I peak.
C4_UnavailableIsFlag ==
    [][ (done' = done + 1 /\ Unavailable(opened'[done']))
        => /\ stokesVflag'
           /\ AllSlabsNaN(dataCube', rmsDict'.chanNo[done'])
           /\ \A col \in {"chanNo", "freq", "rmsI", "rmsV", "maxI"} :
                Len(rmsDict'[col]) = Len(rmsDict[col]) + 1
           /\ Last(rmsDict'.rmsI) = NaN
           /\ Last(rmsDict'.rmsV) = NaN
           /\ Last(rmsDict'.maxI) = NaN ]_vars

\* C5: the run is aborted only by a failure of the catalog, of the reference
\* file or of the cube file, never by the failure of a channel file.
C5_ChannelFailureNeverAborts ==
    state = "Aborted"
    => error \in {"EmptyCatalog", "ReferenceUnreadable", "ParseError",
                  "AllocationFailure", "SlabWriteFailure", "IndexError"}

\* The Stokes V noise of a channel file: the estimate check_rms returns.
ExpectedV(hud) == IF hud.kind = "ok" THEN check_rms(hud.V).std ELSE NaN

\* C6: in Finalized the statistics file exists and holds one row per file of
\* the catalog; row i carries the index, frequency and Stokes V noise of file
\* i and either its Stokes I noise and peak or NaN.  (Runs in which an
\* assignment to the cube raised for its own reasons are left aside.)
C6_OneRowPerChannel ==
    (state = "Finalized" /\ ~slabWriteFailed)
    => /\ statsFile.exists
       /\ Len(statsFile.rows) = Len(channelFitsfileList)
       /\ \A i \in 1..Len(statsFile.rows) :
            LET row == statsFile.rows[i]
                hud == opened[i]
            IN  /\ row.chanNo =
                     get_channelNumber_from_filename(channelFitsfileList[i],
                                                     MARKER_CHANNEL).n - 1
                /\ row.freq = MHz4(hud.CRVAL3)
                /\ row.rmsV = Micro4(ExpectedV(hud))
                /\ row.rmsI \in {Micro4(NaN), Micro4(get_std_via_mad(hud.I))}
                /\ row.maxI \in {Micro4(NaN), Micro4(np_max(hud.I))}

\* C7: once an assignment to a slab of the cube has raised, the run is
\* aborted: it neither goes on to the next channel nor reaches Finalized.
C7_SlabWriteFailureIsFatal ==
    slabWriteFailed => state = "Aborted"

\* C8: the cube file does not exist when a ParseError ends the run.
C8_ParseErrorBeforeAllocation ==
    error = "ParseError" => ~cubeExists

ChannelNumber(f) == get_channelNumber_from_filename(f, MARKER_CHANNEL)

\* C9: when every file name parses, the channel axis is as long as the
\* largest channel number of the catalog, and the position (number - 1) of
\* every file lies inside the axis.
C9_AxisHoldsEveryChannel ==
    (state \in {"Allocating", "Processing", "Finalized"}
       /\ \A f \in dirImages : ChannelNumber(f).ok)
    => /\ \A f \in dirImages : ChannelNumber(f).n <= dims.zdim
       /\ \E f \in dirImages : ChannelNumber(f).n = dims.zdim
       /\ \A f \in dirImages :
            ChannelNumber(f).n - 1 >= 0 /\ ChannelNumber(f).n - 1 < dims.zdim

CeilDiv(n, d) == (n + d - 1) \div d

\* C10: after allocation the size of the cube file is the header size plus
\* the data size x * y * z * 4 * 4 rounded up to a multiple of 2880, with no
\* block added when the data size is already such a multiple.
C10_FileSizeIsCeil ==
    state \in {"Processing", "Finalized"}
    => cubeSize = header_size
                    + CeilDiv(dims.xdim * dims.ydim * dims.zdim * 4 * 4, 2880)
                        * 2880

\* The first byte of the slab at each position of the cube file.
SlabFirst == [p \in DOMAIN dataCube |-> SlabOffset(dims, p[1], p[2])]

\* Two byte ranges of the given length that start at a and b do not overlap.
Disjoint(a, b, length) == a + length <= b \/ b + length <= a

\* C11: one turn of the channel loop changes the slabs of its own channel
\* position only: every slab at another position, the header region, the
\* header size and the file size stay as they were; and the byte ranges of
\* two different (stokes, channel) positions lie in the data region and
\* never overlap, so that a write to one slab cannot reach another.
C11_SlabWriteIsLocal ==
    [][ LET list == channelFitsfileList
            number == get_channelNumber_from_filename(list[done + 1],
                                                      MARKER_CHANNEL)
            idx == number.n - 1
            first == SlabFirst
            length == SlabBytes(dims)
        IN  state = "Processing" /\ done < Len(list) /\ number.ok
            => /\ DOMAIN dataCube' = DOMAIN dataCube
               /\ \A p \in DOMAIN dataCube :
                     /\ p[2] # idx => dataCube'[p] = dataCube[p]
                     /\ first[p] >= header_size
                     /\ first[p] + length <= cubeSize
                     /\ \A q \in DOMAIN dataCube :
                           p # q => Disjoint(first[p], first[q], length)
               /\ cubeHeader' = cubeHeader
               /\ header_size' = header_size
               /\ cubeSize' = cubeSize ]_vars

\* Two channels were copied one after the other and the slabs of the first
\* still hold what its turn stored, next to those of the second.
C11_Witness ==
    /\ state = "Processing"
    /\ done = 2
    /\ ~slabWriteFailed
    /\ rmsDict.chanNo = <<0, 1>>
    /\ opened[1].V = LoudV
    /\ opened[2].V = EdgeV
    /\ dataCube[<<3, 0>>] = LoudV
    /\ dataCube[<<3, 1>>] = EdgeV
    /\ dataCube[<<0, 0>>] = opened[1].I
    /\ dataCube[<<0, 1>>] = opened[2].I
    /\ SlabFirst[<<3, 0>>] + SlabBytes(dims) <= SlabFirst[<<3, 1>>]

\* C12: the channel numbers are recorded, and the rows of the statistics
\* file written, in the order of the sorted file names: entry k of the chanNo
\* list is the index of file k of the sorted list, and once the file is
\* written it has one row per file, row k carrying the index of file k and
\* the frequency found in it, whatever the numeric order of the indices.
C12_RowsInFilenameOrder ==
    /\ \A k \in 1..Len(rmsDict.chanNo) :
          rmsDict.chanNo[k] = ChannelNumber(channelFitsfileList[k]).n - 1
    /\ statsFile.rows # <<>>
       => /\ Len(statsFile.rows) = Len(channelFitsfileList)
          /\ \A k \in 1..Len(statsFile.rows) :
                /\ statsFile.rows[k].chanNo =
                     ChannelNumber(channelFitsfileList[k]).n - 1
                /\ statsFile.rows[k].freq = MHz4(opened[k].CRVAL3)

\* A statistics file of three rows whose channel indices do not ascend: the
\* sorted names are "a.chan002", "b.chan001", "b.chan003".
C12_Witness ==
    /\ state = "Finalized"
    /\ Len(statsFile.rows) = 3
    /\ statsFile.rows[1].chanNo = 1
    /\ statsFile.rows[2].chanNo = 0
    /\ statsFile.rows[3].chanNo = 2
    /\ ChannelNumber(channelFitsfileList[1]).n
         > ChannelNumber(channelFitsfileList[2]).n

\* C13: the cube header, as built and as written to the cube file, is the
\* header of the first file with three cards overwritten (OBJECT with the
\* field names, NAXIS3 with the length of the channel axis, CTYPE3 with
\* "FREQ"); every other card, the other axis lengths among them, has the
\* value it has in the header of the first file.
C13_OnlyThreeCardsOverwritten ==
    state \in {"Allocating", "Processing", "Finalized"}
    => /\ header.OBJECT = fieldnames
       /\ header.NAXIS3 = dims.zdim
       /\ header.CTYPE3 = "FREQ"
       /\ \A card \in {"BUNIT", "BITPIX", "NAXIS", "NAXIS1", "NAXIS2",
                        "NAXIS4", "CRVAL3"} :
             header[card] = referenceHeader[card]
       /\ cubeExists => cubeHeader = header

====
